---- MODULE Spec2Model ----
(***************************************************************************)
(* configure_krb5.py: generation and installation of /etc/krb5.conf.       *)
(*                                                                         *)
(* The state is the part of the machine the script reads and writes: the   *)
(* file at /etc/krb5.conf, the backup files beside it, the wall clock that *)
(* names a backup, the write permissions os.access reports, and the        *)
(* position and local variables of main().  One action per step of main(). *)
(*                                                                         *)
(* Text is a sequence of tokens: a character of an argument is a one       *)
(* character string, a literal piece of the template is one string.  An   *)
(* optional value (Python None or a value) is <<>> or <<v>>.               *)
(*                                                                         *)
(* I/O that can fail in the model: the backup copy (line 82), the write of *)
(* the new file (lines 200-201), the diagnostic commands (line 112) and    *)
(* the permission probe (lines 88-98).  Console output is not state; the   *)
(* restore copy (line 219) and the read of the current file (line 129)     *)
(* are taken to succeed.                                                   *)
(***************************************************************************)
EXTENDS Integers, Sequences, FiniteSets, TLC

VARIABLES
    args,         \* argparse namespace (line 159)
    pc,           \* position in main()
    target,       \* /etc/krb5.conf: <<>> when absent, <<text>> when present
    backups,      \* /etc/krb5.conf.backup.<timestamp>: timestamp -> <<>> or <<text>>
    now,          \* wall clock, in seconds (datetime.now(), line 80)
    access,       \* os.access(., W_OK) per path and per euid (root or not)
    elevated,     \* the process runs under sudo
    elevations,   \* number of os.execlpe("sudo", ...) since the user's command
    config_data,  \* local of main(), line 182
    confirm,      \* local of main(), line 191: <<>> before the prompt
    backup_path,  \* local of main(), line 197
    test_idx,     \* loop position in test_kerberos_config (line 110)
    test_log,     \* what test_kerberos_config printed: <<command, report>> each
    steps,        \* the steps this invocation has taken, in order
    exit_code,    \* process exit status: <<>> while the process lives
    outcome,      \* the path main() ended on
    runs,         \* number of user commands so far
    pre_target,   \* /etc/krb5.conf when the user's command started
    pre_backups   \* the backup files when the user's command started

vars == <<args, pc, target, backups, now, access, elevated, elevations,
          config_data, confirm, backup_path, test_idx, test_log, steps,
          exit_code, outcome, runs, pre_target, pre_backups>>

-----------------------------------------------------------------------------
(* Bounds *)

MaxLen == 2       \* longest argument string drawn for get_config
MaxTime == 2      \* seconds on the wall clock
MaxExec == 2      \* sudo re-executions followed in one user command
MaxRuns == 2      \* user commands in a row

-----------------------------------------------------------------------------
(* Values *)

None == <<>>
Some(v) == <<v>>

Chars == {"a", "A", "1"}
Strings(n) == UNION {[1..k -> Chars] : k \in 0..n}

\* Python truthiness of an optional string: None and "" are falsy.
Truthy(o) == o # None /\ o[1] # <<>>

\* str.lower / str.upper, character by character.
lower_char(c) ==
    CASE c = "A" -> "a"
      [] c = "Y" -> "y"
      [] c = "N" -> "n"
      [] OTHER -> c
upper_char(c) ==
    CASE c = "a" -> "A"
      [] c = "y" -> "Y"
      [] c = "n" -> "N"
      [] OTHER -> c
lower(s) == [i \in 1..Len(s) |-> lower_char(s[i])]
upper(s) == [i \in 1..Len(s) |-> upper_char(s[i])]

NL == "\n"

\* kdc_host with dc_name not lowercased.
kdc_host_NoLower(domain_fqdn, dc_name, kdc_ip) ==
    IF Truthy(kdc_ip) THEN kdc_ip[1]
    ELSE dc_name \o <<".">> \o lower(domain_fqdn)

\* kdc_host with the override lowercased like the DNS name.
kdc_host_LowerIp(domain_fqdn, dc_name, kdc_ip) ==
    IF Truthy(kdc_ip) THEN lower(kdc_ip[1])
    ELSE lower(dc_name) \o <<".">> \o lower(domain_fqdn)

\* get_config, lines 45-52: the KDC address.
kdc_host(domain_fqdn, dc_name, kdc_ip) ==
    IF Truthy(kdc_ip) THEN kdc_ip[1]
    ELSE lower(dc_name) \o <<".">> \o lower(domain_fqdn)

\* get_config, lines 45-52: the admin server address.
admin_server(domain_fqdn, dc_name, kdc_ip) ==
    IF Truthy(kdc_ip) THEN kdc_ip[1]
    ELSE lower(dc_name) \o <<".">> \o lower(domain_fqdn)

\* get_config (lines 42-73): the text of the new krb5.conf.
get_config(domain_fqdn, dc_name, kdc_ip) ==
    <<"[libdefaults]", NL, "default_realm = ">> \o upper(domain_fqdn)
    \o <<NL, "dns_lookup_realm = false", NL, "dns_lookup_kdc = ",
         (IF Truthy(kdc_ip) THEN "false" ELSE "true"), NL,
         "ticket_lifetime = 24h", NL, "renew_lifetime = 7d", NL,
         "forwardable = true", NL, "proxiable = true", NL,
         "rdns = false", NL, NL,
         "[realms]", NL>> \o upper(domain_fqdn) \o <<" = {", NL, "kdc = ">>
    \o kdc_host(domain_fqdn, dc_name, kdc_ip) \o <<NL, "admin_server = ">>
    \o admin_server(domain_fqdn, dc_name, kdc_ip)
    \o <<NL, "}", NL, NL, "[domain_realm]", NL>>
    \o lower(domain_fqdn) \o <<" = ">> \o upper(domain_fqdn)
    \o <<NL, ".">> \o lower(domain_fqdn) \o <<" = ">> \o upper(domain_fqdn)
    \o <<NL>>

\* The value of a "key = value" line of a document: the tokens between the
\* first occurrence of the key and the end of its line.
Field(doc, key) ==
    LET at == {i \in 1..Len(doc) : doc[i] = key}
        i0 == CHOOSE i \in at : \A j \in at : i <= j
        ends == {j \in (i0 + 1)..Len(doc) : doc[j] = NL}
        j0 == CHOOSE j \in ends : \A k \in ends : j <= k
    IN  SubSeq(doc, i0 + 1, j0 - 1)

-----------------------------------------------------------------------------
(* The file system and the environment *)

TimeStamps == 1..MaxTime
OldText == <<"old krb5.conf", NL>>
NoBackups == [t \in TimeStamps |-> None]
Files(bk) == {t \in TimeStamps : bk[t] # None}

\* What os.access(., W_OK) answers for /etc/krb5.conf and for /etc, to the
\* user (FALSE) and to root (TRUE): everything writable by the user; only by
\* root; by nobody (a read-only file system); the file by the user but the
\* directory only by root.
AccessCases ==
    {[file |-> [e \in BOOLEAN |-> TRUE], dir |-> [e \in BOOLEAN |-> TRUE]],
     [file |-> [e \in BOOLEAN |-> e], dir |-> [e \in BOOLEAN |-> e]],
     [file |-> [e \in BOOLEAN |-> FALSE], dir |-> [e \in BOOLEAN |-> FALSE]],
     [file |-> [e \in BOOLEAN |-> TRUE], dir |-> [e \in BOOLEAN |-> e]]}

\* check_permissions (lines 88-98).
check_permissions ==
    IF target # None THEN access.file[elevated] ELSE access.dir[elevated]

\* The fixed command list of test_kerberos_config (lines 105-108).
tests == << <<"klist", "-5">>, <<"klist", "-k">> >>

\* What subprocess.run can do with a command (lines 111-120).
CmdOutcomes == {"exit0", "nonzero", "nolaunch"}

\* The line test_kerberos_config prints for an outcome (lines 113-120).
report(o) ==
    CASE o = "exit0" -> "Test passed"
      [] o = "nonzero" -> "Test may have issues"
      [] o = "nolaunch" -> "Failed to run test"

\* Command lines the user can type.
Domains == {None, Some(<<"a", "A">>)}
DcNames == {None, Some(<<>>), Some(<<"A">>)}
IpKdcs == {None, Some(<<"1", "A">>)}
ArgSets == [domain_fqdn : Domains, dc_name : DcNames, ip_kdc : IpKdcs,
            test : BOOLEAN, show_current : BOOLEAN, yes : BOOLEAN]

\* Answers the user can type at the prompt (line 191).
Answers == {<<"y">>, <<"Y">>, <<"n">>, <<>>, <<"y", "y">>}

\* What a failed write can leave of the text it was writing: nothing was
\* flushed, or a proper prefix was (the half is the one drawn).
Partial(text) == {SubSeq(text, 1, 0), SubSeq(text, 1, Len(text) \div 2)}

\* The locals of main() before it runs.
FreshLocals ==
    /\ config_data' = <<>>
    /\ confirm' = None
    /\ backup_path' = None
    /\ test_idx' = 1
    /\ test_log' = <<>>
    /\ steps' = <<>>

-----------------------------------------------------------------------------
(* The user's first command *)

Init ==
    /\ args \in ArgSets
    /\ pc = "main"
    /\ target \in {None, Some(OldText)}
    /\ backups = NoBackups
    /\ now = 1
    /\ access \in AccessCases
    /\ elevated = FALSE
    /\ elevations = 0
    /\ config_data = <<>>
    /\ confirm = None
    /\ backup_path = None
    /\ test_idx = 1
    /\ test_log = <<>>
    /\ steps = <<>>
    /\ exit_code = None
    /\ outcome = "running"
    /\ runs = 1
    /\ pre_target = target
    /\ pre_backups = backups

-----------------------------------------------------------------------------
(* main(), lines 134-220 *)

\* Lines 162-164: --show-current prints the file and exits 0.
ShowCurrent ==
    /\ pc = "main"
    /\ args.show_current
    /\ pc' = "exit"
    /\ exit_code' = Some(0)
    /\ outcome' = "shown"
    /\ UNCHANGED <<args, target, backups, now, access, elevated, elevations,
                   config_data, confirm, backup_path, test_idx, test_log,
                   steps, runs, pre_target, pre_backups>>

\* MissingArgs with the validation done before --show-current is looked at.
MissingArgs_BeforeShow ==
    /\ pc = "main"
    /\ ~Truthy(args.domain_fqdn) \/ ~Truthy(args.dc_name)
    /\ pc' = "exit"
    /\ exit_code' = Some(1)
    /\ outcome' = "missing_args"
    /\ UNCHANGED <<args, target, backups, now, access, elevated, elevations,
                   config_data, confirm, backup_path, test_idx, test_log,
                   steps, runs, pre_target, pre_backups>>

\* Lines 167-170: a missing or empty positional argument exits 1.
MissingArgs ==
    /\ pc = "main"
    /\ ~args.show_current
    /\ ~Truthy(args.domain_fqdn) \/ ~Truthy(args.dc_name)
    /\ pc' = "exit"
    /\ exit_code' = Some(1)
    /\ outcome' = "missing_args"
    /\ UNCHANGED <<args, target, backups, now, access, elevated, elevations,
                   config_data, confirm, backup_path, test_idx, test_log,
                   steps, runs, pre_target, pre_backups>>

\* Line 173: the permission probe decides between sudo and going on.
CheckPermissions ==
    /\ pc = "main"
    /\ ~args.show_current
    /\ Truthy(args.domain_fqdn) /\ Truthy(args.dc_name)
    /\ pc' = IF check_permissions THEN "render" ELSE "sudo"
    /\ UNCHANGED <<args, target, backups, now, access, elevated, elevations,
                   config_data, confirm, backup_path, test_idx, test_log,
                   steps, exit_code, outcome, runs, pre_target, pre_backups>>

\* Lines 174-176: os.execlpe replaces the process by sudo with the same
\* arguments; sudo either runs the script again from the top, as root, or
\* refuses and exits nonzero.
SudoExec ==
    /\ pc = "sudo"
    /\ elevations < MaxExec
    /\ elevations' = elevations + 1
    /\ \E ran \in BOOLEAN :
         IF ran
         THEN /\ elevated' = TRUE
              /\ pc' = "main"
              /\ UNCHANGED <<exit_code, outcome>>
         ELSE /\ pc' = "exit"
              /\ exit_code' = Some(1)
              /\ outcome' = "sudo_refused"
              /\ UNCHANGED elevated
    /\ UNCHANGED <<args, target, backups, now, access, config_data, confirm,
                   backup_path, test_idx, test_log, steps, runs, pre_target,
                   pre_backups>>

\* Lines 179-187: show the current file, render the new one.
Render ==
    /\ pc = "render"
    /\ config_data' = get_config(args.domain_fqdn[1], args.dc_name[1], args.ip_kdc)
    /\ steps' = Append(steps, "render")
    /\ pc' = "confirm"
    /\ UNCHANGED <<args, target, backups, now, access, elevated, elevations,
                   confirm, backup_path, test_idx, test_log, exit_code,
                   outcome, runs, pre_target, pre_backups>>

\* Confirm with any answer but "n" taken as consent.
Confirm_NotN ==
    /\ pc = "confirm"
    /\ IF args.yes
       THEN /\ pc' = "backup"
            /\ UNCHANGED <<confirm, steps, exit_code, outcome>>
       ELSE \E answer \in Answers :
              /\ confirm' = Some(answer)
              /\ steps' = Append(steps, "confirm")
              /\ IF lower(answer) = <<"n">>
                 THEN /\ pc' = "exit"
                      /\ exit_code' = Some(1)
                      /\ outcome' = "declined"
                 ELSE /\ pc' = "backup"
                      /\ UNCHANGED <<exit_code, outcome>>
    /\ UNCHANGED <<args, target, backups, now, access, elevated, elevations,
                   config_data, backup_path, test_idx, test_log, runs,
                   pre_target, pre_backups>>

\* Lines 190-194: the prompt, skipped under --yes.
Confirm ==
    /\ pc = "confirm"
    /\ IF args.yes
       THEN /\ pc' = "backup"
            /\ UNCHANGED <<confirm, steps, exit_code, outcome>>
       ELSE \E answer \in Answers :
              /\ confirm' = Some(answer)
              /\ steps' = Append(steps, "confirm")
              /\ IF lower(answer) # <<"y">>
                 THEN /\ pc' = "exit"
                      /\ exit_code' = Some(1)
                      /\ outcome' = "declined"
                 ELSE /\ pc' = "backup"
                      /\ UNCHANGED <<exit_code, outcome>>
    /\ UNCHANGED <<args, target, backups, now, access, elevated, elevations,
                   config_data, backup_path, test_idx, test_log, runs,
                   pre_target, pre_backups>>

\* Backup that swallows a failed copy and goes on without a backup.
Backup_Swallow ==
    /\ pc = "backup"
    /\ steps' = Append(steps, "backup")
    /\ IF target # None
       THEN \E copied \in BOOLEAN :
              IF copied
              THEN /\ backups' = [backups EXCEPT ![now] = target]
                   /\ backup_path' = Some(now)
              ELSE /\ \E left \in {backups[now], Some(<<>>)} :
                        backups' = [backups EXCEPT ![now] = left]
                   /\ backup_path' = None
       ELSE /\ backup_path' = None
            /\ UNCHANGED backups
    /\ pc' = "write"
    /\ UNCHANGED <<exit_code, outcome>>
    /\ UNCHANGED <<args, target, now, access, elevated, elevations,
                   config_data, confirm, test_idx, test_log, runs,
                   pre_target, pre_backups>>

\* Line 197 and backup_existing_config (lines 76-85): when the file exists
\* it is copied to the name the clock gives, over whatever has that name; a
\* failed copy raises, nothing catches it, and the process ends with status
\* 1, the destination untouched or created empty.
Backup ==
    /\ pc = "backup"
    /\ steps' = Append(steps, "backup")
    /\ IF target # None
       THEN \E copied \in BOOLEAN :
              IF copied
              THEN /\ backups' = [backups EXCEPT ![now] = target]
                   /\ backup_path' = Some(now)
                   /\ pc' = "write"
                   /\ UNCHANGED <<exit_code, outcome>>
              ELSE /\ \E left \in {backups[now], Some(<<>>)} :
                        backups' = [backups EXCEPT ![now] = left]
                   /\ pc' = "exit"
                   /\ exit_code' = Some(1)
                   /\ outcome' = "backup_failed"
                   /\ UNCHANGED backup_path
       ELSE /\ backup_path' = None
            /\ pc' = "write"
            /\ UNCHANGED <<backups, exit_code, outcome>>
    /\ UNCHANGED <<args, target, now, access, elevated, elevations,
                   config_data, confirm, test_idx, test_log, runs,
                   pre_target, pre_backups>>

\* Lines 199-202: open for writing truncates, the text is written.  A
\* failure leaves the file as it was (open failed) or holding part of the
\* text, and enters the handler of line 215.
Write ==
    /\ pc = "write"
    /\ steps' = Append(steps, "write")
    /\ \E written \in BOOLEAN :
         IF written
         THEN /\ target' = Some(config_data)
              /\ pc' = IF args.test THEN "test" ELSE "usage"
         ELSE /\ \E left \in {target} \cup {Some(t) : t \in Partial(config_data)} :
                   target' = left
              /\ pc' = "except"
    /\ UNCHANGED <<args, backups, now, access, elevated, elevations,
                   config_data, confirm, backup_path, test_idx, test_log,
                   exit_code, outcome, runs, pre_target, pre_backups>>

\* TestCmd without the try of line 111: a command that cannot be launched
\* raises into main().
TestCmd_Propagate ==
    /\ pc = "test"
    /\ steps' = IF test_idx = 1 THEN Append(steps, "verify") ELSE steps
    /\ \E o \in CmdOutcomes :
         IF o = "nolaunch"
         THEN /\ pc' = "except"
              /\ UNCHANGED <<test_log, test_idx>>
         ELSE /\ test_log' = Append(test_log, <<tests[test_idx], report(o)>>)
              /\ test_idx' = test_idx + 1
              /\ pc' = IF test_idx = Len(tests) THEN "usage" ELSE "test"
    /\ UNCHANGED <<args, target, backups, now, access, elevated, elevations,
                   config_data, confirm, backup_path, exit_code, outcome,
                   runs, pre_target, pre_backups>>

\* Lines 205-206 and one turn of the loop of test_kerberos_config (lines
\* 110-120): the command runs, its outcome is reported, the loop goes on.
TestCmd ==
    /\ pc = "test"
    /\ steps' = IF test_idx = 1 THEN Append(steps, "verify") ELSE steps
    /\ \E o \in CmdOutcomes :
         test_log' = Append(test_log, <<tests[test_idx], report(o)>>)
    /\ test_idx' = test_idx + 1
    /\ pc' = IF test_idx = Len(tests) THEN "usage" ELSE "test"
    /\ UNCHANGED <<args, target, backups, now, access, elevated, elevations,
                   config_data, confirm, backup_path, exit_code, outcome,
                   runs, pre_target, pre_backups>>

\* Usage whose formatting raises inside the try block.
Usage_Raises ==
    /\ pc = "usage"
    /\ pc' = "except"
    /\ UNCHANGED <<args, target, backups, now, access, elevated, elevations,
                   config_data, confirm, backup_path, test_idx, test_log,
                   steps, exit_code, outcome, runs, pre_target, pre_backups>>

\* Lines 209-213, then main() returns: exit status 0.
Usage ==
    /\ pc = "usage"
    /\ pc' = "exit"
    /\ exit_code' = Some(0)
    /\ outcome' = "installed"
    /\ UNCHANGED <<args, target, backups, now, access, elevated, elevations,
                   config_data, confirm, backup_path, test_idx, test_log,
                   steps, runs, pre_target, pre_backups>>

\* The handler without its copy.
restore_Skip(path, file, bk) == file

\* Lines 217-219: the file after the handler, copied back from the backup
\* when this invocation made one.
restore(path, file, bk) == IF path # None THEN bk[path[1]] ELSE file

\* Lines 215-220: the handler of the try block.
Except ==
    /\ pc = "except"
    /\ target' = restore(backup_path, target, backups)
    /\ pc' = "exit"
    /\ exit_code' = Some(1)
    /\ outcome' = "write_failed"
    /\ UNCHANGED <<args, backups, now, access, elevated, elevations,
                   config_data, confirm, backup_path, test_idx, test_log,
                   steps, runs, pre_target, pre_backups>>

-----------------------------------------------------------------------------
(* The environment *)

\* The user types another command after the last one ended.
NextCommand ==
    /\ pc = "exit"
    /\ runs < MaxRuns
    /\ runs' = runs + 1
    /\ args' \in ArgSets
    /\ pc' = "main"
    /\ elevated' = FALSE
    /\ elevations' = 0
    /\ FreshLocals
    /\ exit_code' = None
    /\ outcome' = "running"
    /\ pre_target' = target
    /\ pre_backups' = backups
    /\ UNCHANGED <<target, backups, now, access>>

\* A second passes.
Tick ==
    /\ now < MaxTime
    /\ now' = now + 1
    /\ UNCHANGED <<args, pc, target, backups, access, elevated, elevations,
                   config_data, confirm, backup_path, test_idx, test_log,
                   steps, exit_code, outcome, runs, pre_target, pre_backups>>

Next ==
    \/ ShowCurrent
    \/ MissingArgs
    \/ CheckPermissions
    \/ SudoExec
    \/ Render
    \/ Confirm
    \/ Backup
    \/ Write
    \/ TestCmd
    \/ Usage
    \/ Except
    \/ NextCommand
    \/ Tick

Spec == Init /\ [][Next]_vars

-----------------------------------------------------------------------------
(* get_config alone: main() at line 182 with arguments drawn from every     *)
(* string of at most MaxLen characters.                                     *)

InitRender ==
    /\ args \in [domain_fqdn : {Some(s) : s \in Strings(MaxLen) \ {<<>>}},
                 dc_name : {Some(s) : s \in Strings(MaxLen) \ {<<>>}},
                 ip_kdc : {None} \cup {Some(s) : s \in Strings(MaxLen)},
                 test : {FALSE}, show_current : {FALSE}, yes : {TRUE}]
    /\ pc = "render"
    /\ target = None
    /\ backups = NoBackups
    /\ now = 1
    /\ access = [file |-> [e \in BOOLEAN |-> TRUE], dir |-> [e \in BOOLEAN |-> TRUE]]
    /\ elevated = FALSE
    /\ elevations = 0
    /\ config_data = <<>>
    /\ confirm = None
    /\ backup_path = None
    /\ test_idx = 1
    /\ test_log = <<>>
    /\ steps = <<>>
    /\ exit_code = None
    /\ outcome = "running"
    /\ runs = 1
    /\ pre_target = target
    /\ pre_backups = backups

NextRender == Render

SpecRender == InitRender /\ [][NextRender]_vars

-----------------------------------------------------------------------------
(* Properties *)

Confirmed == args.yes \/ (confirm # None /\ lower(confirm[1]) = <<"y">>)
DnsName == lower(args.dc_name[1]) \o <<".">> \o lower(args.domain_fqdn[1])
Rendered == pc = "confirm" /\ config_data # <<>>

C2_NoWriteAfterFailedBackup ==
    /\ outcome = "backup_failed"
         => /\ pc = "exit" /\ exit_code = Some(1)
            /\ target = pre_target
            /\ \A i \in 1..Len(steps) : steps[i] # "write"
    /\ (pc = "write" \/ \E i \in 1..Len(steps) : steps[i] = "write")
         => \/ backup_path # None /\ backups[backup_path[1]] = pre_target
            \/ backup_path = None /\ pre_target = None

C2_Witness ==
    /\ pc = "exit" /\ outcome = "backup_failed"
    /\ target = Some(OldText) /\ backups[now] = Some(<<>>)

\* C3: nothing on disk changes before the confirmation is passed: the
\* --show-current, missing-argument and declined paths leave /etc/krb5.conf
\* and the backup files as they were; the backup and write steps are taken
\* only after --yes or an answer of y/Y; and the steps taken are in the
\* order render, confirm, backup, write, verify.
StepOrder == <<"render", "confirm", "backup", "write", "verify">>
StepPos(n) == CHOOSE i \in 1..Len(StepOrder) : StepOrder[i] = n
C3_NoMutationBeforeConfirm ==
    /\ (pc = "exit" /\ outcome \in {"shown", "missing_args", "declined"})
         => (target = pre_target /\ backups = pre_backups)
    /\ (target # pre_target \/ backups # pre_backups) => Confirmed
    /\ pc \in {"backup", "write", "test", "usage", "except"} => Confirmed
    /\ \A i, j \in 1..Len(steps) : i < j => StepPos(steps[i]) < StepPos(steps[j])

C3_Witness ==
    /\ pc = "exit" /\ outcome = "declined" /\ confirm = Some(<<"y", "y">>)
    /\ steps = <<"render", "confirm">>
    /\ target = Some(OldText) /\ backups = pre_backups

C5_DnsRendering ==
    (Rendered /\ args.ip_kdc = None)
        => /\ Field(config_data, "kdc = ") = DnsName
           /\ Field(config_data, "admin_server = ") = DnsName
           /\ Field(config_data, "dns_lookup_kdc = ") = <<"true">>

C5_Witness ==
    /\ Rendered /\ args.ip_kdc = None
    /\ args.dc_name = Some(<<"A", "1">>) /\ args.domain_fqdn = Some(<<"a", "A">>)
    /\ Field(config_data, "kdc = ") = <<"a", "1", ".", "a", "a">>

\* C6 as stated: with any override value the -k flag can pass, the kdc and
\* admin_server fields are the override itself, dns_lookup_kdc is false and
\* the realm is the uppercased domain.
C6_AnyOverride ==
    (Rendered /\ args.ip_kdc # None)
        => /\ Field(config_data, "kdc = ") = args.ip_kdc[1]
           /\ Field(config_data, "admin_server = ") = args.ip_kdc[1]
           /\ Field(config_data, "dns_lookup_kdc = ") = <<"false">>
           /\ Field(config_data, "default_realm = ") = upper(args.domain_fqdn[1])

\* C6 amended: with a non-empty override, the kdc and admin_server fields
\* are the override itself, unchanged in case, dns_lookup_kdc is false and
\* the realm is the uppercased domain; an empty override is rendered as no
\* override at all.
C6_NonEmptyOverride ==
    /\ (Rendered /\ Truthy(args.ip_kdc))
         => /\ Field(config_data, "kdc = ") = args.ip_kdc[1]
            /\ Field(config_data, "admin_server = ") = args.ip_kdc[1]
            /\ Field(config_data, "dns_lookup_kdc = ") = <<"false">>
            /\ Field(config_data, "default_realm = ") = upper(args.domain_fqdn[1])
    /\ (Rendered /\ args.ip_kdc = Some(<<>>))
         => /\ Field(config_data, "kdc = ") = DnsName
            /\ Field(config_data, "dns_lookup_kdc = ") = <<"true">>

C6_Witness ==
    /\ Rendered /\ args.ip_kdc = Some(<<"A", "a">>)
    /\ args.domain_fqdn = Some(<<"a", "1">>)
    /\ Field(config_data, "kdc = ") = <<"A", "a">>
    /\ Field(config_data, "default_realm = ") = <<"A", "1">>

\* C7 as stated: at the backup step, with no file at /etc/krb5.conf nothing
\* is returned and no file is created; with a file there, the set of backup
\* files grows by exactly one, the new file holding the content of
\* /etc/krb5.conf.
BackupStepAsClaimed ==
    (pc = "backup" /\ pc' = "write")
        => IF target = None
           THEN backup_path' = None /\ backups' = backups
           ELSE /\ backup_path' # None
                /\ backups'[backup_path'[1]] = target
                /\ Cardinality(Files(backups')) = Cardinality(Files(backups)) + 1
C7_BackupCreatesOneNewFile == [][BackupStepAsClaimed]_vars

\* C8 as stated: one user command leads to at most one re-execution under
\* sudo.
C8_AtMostOneElevation == elevations <= 1

\* C9: test_kerberos_config runs each command of its list once and in order
\* whatever the earlier commands did, reports a launch failure differently
\* from a nonzero exit, and leaves /etc/krb5.conf, the handler and the exit
\* status of a successful install alone.
C9_DiagnosticsAreInformational ==
    /\ \A i \in 1..Len(test_log) : test_log[i][1] = tests[i]
    /\ pc = "test" => (Len(test_log) = test_idx - 1 /\ test_idx <= Len(tests))
    /\ \A i \in 1..Len(test_log) :
         test_log[i][2] \in {report("exit0"), report("nonzero"), report("nolaunch")}
    /\ report("nolaunch") # report("nonzero")
    /\ (Len(steps) > 0 /\ steps[Len(steps)] = "verify" /\ pc # "test")
         => /\ Len(test_log) = Len(tests)
            /\ pc \in {"usage", "exit"}
            /\ target = Some(config_data)
            /\ pc = "exit" => (exit_code = Some(0) /\ outcome = "installed")

C9_Witness ==
    /\ pc = "exit" /\ exit_code = Some(0) /\ target = Some(config_data)
    /\ Len(test_log) = 2
    /\ test_log[1] = <<tests[1], "Failed to run test">>
    /\ test_log[2] = <<tests[2], "Test may have issues">>

\* C10: once the write of the rendered configuration has succeeded, no later
\* step of the invocation changes /etc/krb5.conf: the file holds the
\* rendered configuration through verification and the usage examples, and
\* when the invocation ends.
StepAfterWrite ==
    pc \in {"test", "usage"}
        => /\ target = Some(config_data)
           /\ target' = target
           /\ pc' \in {"test", "usage", "exit"}
           /\ pc' = "exit" => (outcome' = "installed" /\ exit_code' = Some(0))
====
